---- MODULE Spec2Model ----
(***************************************************************************)
(* Model of the witness "verify" command (cmd runVerify, with its helpers  *)
(* loadEnvelopesFromDisk and loadEnvelopesFromRekor), of pkg               *)
(* VerifySignature, and of the archivist/collector sink client.            *)
(*                                                                         *)
(* Bytes are modelled by what decoding them yields: a file is a record     *)
(* saying whether it opens, reads and decodes, and the envelope it decodes *)
(* to; a payload is a string that the JSON decoders below look up.  Go     *)
(* errors are sequences of strings, the outermost wrapping first; the nil  *)
(* error is the empty sequence.                                            *)
(***************************************************************************)
EXTENDS Integers, Sequences, FiniteSets, TLC

VARIABLES
    pc,                 \* position of runVerify
    ret,                \* the error runVerify returned (Nil: exit code 0)
    calls,              \* history: the calls runVerify made, with their outcome
    rekorServer,        \* vo.RekorServer
    verifier,           \* the key loaded from vo.KeyPath
    policyFile,         \* what vo.PolicyFilePath holds
    policyEnvelope,     \* runVerify's policyEnvelope
    pol,                \* runVerify's pol
    files,              \* what vo.AttestationFilePaths hold, in path order
    entries,            \* what the log returned for the artifact, in its order
    queryFailed,        \* history: the log client or its query failed
    envelopes,          \* runVerify's envelopes
    pubkeys,            \* runVerify's pubkeys
    roots,              \* runVerify's roots
    intermediates,      \* runVerify's intermediates
    verifiedStatements, \* runVerify's verifiedStatements
    evaluated,          \* history: what pol.Verify was given
    sinkKind,           \* which client the sink holds (collector / archivist)
    sinkPc,             \* "ready", "stopped" or "panicked"
    rpcCalls,           \* history: the RPCs the sink issued, oldest first
    sinkRet             \* what the sink's last operation returned

vars == <<pc, ret, calls, rekorServer, verifier, policyFile, policyEnvelope, pol,
          files, entries, queryFailed, envelopes, pubkeys, roots, intermediates,
          verifiedStatements, evaluated, sinkKind, sinkPc, rpcCalls, sinkRet>>

runVars == <<pc, ret, calls, rekorServer, verifier, policyFile, policyEnvelope, pol,
             files, entries, queryFailed, envelopes, pubkeys, roots, intermediates,
             verifiedStatements, evaluated>>

sinkVars == <<sinkKind, sinkPc, rpcCalls, sinkRet>>

----------------------------------------------------------------------------
(* Bounds *)

MaxFiles == 2
MaxEntries == 2
MaxRpcs == 2
MaxObjects == 2

----------------------------------------------------------------------------
(* Errors *)

Nil == <<>>

Wrap(msg, err) == <<msg>> \o err

ErrNoMatchingVerifier == <<"no verifiers matched">>

Range(s) == {s[i] : i \in 1..Len(s)}

SeqsUpTo(S, n) == UNION {[1..k -> S] : k \in 0..n}

----------------------------------------------------------------------------
(* The universe the runs draw from *)

\* Key identities: kp signs policies, k1 is a functionary key, kz is nobody's.
\* Certificate identities: cR is issued by root r1, cI by intermediate i1 of r1.
Certs == {"cR", "cI"}

CertRoot(c) == "r1"

CertIssuers(c) == IF c = "cI" THEN {"i1"} ELSE {}

\* Trust bundles as policy documents declare them.
BundleRoot(b) == IF b = "b1" THEN "r1" ELSE "r2"

BundleIntermediates(b) == IF b = "b1" THEN <<"i1">> ELSE <<>>

\* Policy payloads and the documents they decode to.  kbad and bbad stand for
\* key / certificate material that does not load.
PolicyDocs ==
    [p \in {"P1", "P2", "P3", "P4", "P5"} |->
        CASE p = "P1" -> [publickeys |-> {"k1"},   trustbundles |-> {}]
          [] p = "P2" -> [publickeys |-> {"k1"},   trustbundles |-> {"b1", "b2"}]
          [] p = "P3" -> [publickeys |-> {},       trustbundles |-> {"b1"}]
          [] p = "P4" -> [publickeys |-> {"kbad"}, trustbundles |-> {"b1"}]
          [] p = "P5" -> [publickeys |-> {"k1"},   trustbundles |-> {"bbad"}]]

EmptyPolicy == [publickeys |-> {}, trustbundles |-> {}]

NoEnvelope == [payload |-> "", sigs |-> {}]

\* Statement payloads and the statements they decode to.
StatementDocs ==
    [p \in {"A", "B"} |-> [subject |-> p, predicateType |-> "build"]]

NoStatement == [subject |-> "", predicateType |-> ""]

\* Attestation envelopes.
AttestationEnvelopes ==
    { [payload |-> "A",       sigs |-> {"k1"}],
      [payload |-> "B",       sigs |-> {"cR", "cI"}],
      [payload |-> "B",       sigs |-> {"kz"}],
      [payload |-> "notjson", sigs |-> {"k1"}] }

\* What an attestation path can hold.
AttestationFiles ==
    { [status |-> s, env |-> NoEnvelope] : s \in {"open_err", "read_err", "bad_json"} }
    \cup { [status |-> "ok", env |-> e] : e \in AttestationEnvelopes }

\* What a log entry can be.
RekorEntries ==
    { [status |-> "bad_entry", env |-> NoEnvelope] }
    \cup { [status |-> "ok", env |-> e] : e \in AttestationEnvelopes }

\* What the policy path can hold.
PolicyFiles ==
    { [status |-> "bad_json", env |-> NoEnvelope] }
    \cup { [status |-> "ok", env |-> [payload |-> p, sigs |-> s]] :
             p \in DOMAIN PolicyDocs \cup {"notjson"}, s \in {{"kp"}, {"kz"}} }

----------------------------------------------------------------------------
(* Collaborators of the repository that src/ does not hold *)

\* x509 chain validation: the signer's root is trusted and every issuer
\* between signer and root is among the supplied intermediates.
ChainsTo(c, rs, is) == CertRoot(c) \in rs /\ CertIssuers(c) \subseteq is

\* dsse.Envelope.Verify: the verifiers that matched a signature; none is an error.
EnvelopeVerify(env, vs, rs, is) ==
    LET passed == {s \in env.sigs : s \in vs \/ (s \in Certs /\ ChainsTo(s, rs, is))}
    IN  IF passed = {}
        THEN [verifiers |-> {}, err |-> ErrNoMatchingVerifier]
        ELSE [verifiers |-> passed, err |-> Nil]

\* json.Unmarshal(payload, &pol)
UnmarshalPolicy(payload) ==
    IF payload \in DOMAIN PolicyDocs
    THEN [pol |-> PolicyDocs[payload], err |-> Nil]
    ELSE [pol |-> EmptyPolicy, err |-> <<"invalid character">>]

\* json.Unmarshal(env.Payload, &statement)
UnmarshalStatement(payload) ==
    IF payload \in DOMAIN StatementDocs
    THEN [statement |-> StatementDocs[payload], err |-> Nil]
    ELSE [statement |-> NoStatement, err |-> <<"invalid character">>]

\* policy.Policy.PublicKeyVerifiers
PublicKeyVerifiers(p) ==
    IF "kbad" \in p.publickeys
    THEN [verifiers |-> {}, err |-> <<"bad key material">>]
    ELSE [verifiers |-> p.publickeys, err |-> Nil]

\* policy.Policy.TrustBundles
TrustBundles(p) ==
    IF "bbad" \in p.trustbundles
    THEN [bundles |-> {}, err |-> <<"bad certificate">>]
    ELSE [bundles |-> p.trustbundles, err |-> Nil]

----------------------------------------------------------------------------
(* pkg.VerifySignature *)

\* Faulty variant: goes on to Envelope.Verify although the bytes did not decode.
VerifySignatureNoFailFast(r, verifiers) ==
    LET env == IF r.status = "ok" THEN r.env ELSE NoEnvelope
    IN  [envelope |-> env,
         err      |-> EnvelopeVerify(env, verifiers, {}, {}).err,
         verified |-> TRUE]

VerifySignature(r, verifiers) ==
    IF r.status # "ok"
    THEN [envelope |-> NoEnvelope,
          err      |-> Wrap("failed to parse dsse envelope", <<"invalid character">>),
          verified |-> FALSE]
    ELSE [envelope |-> r.env,
          err      |-> EnvelopeVerify(r.env, verifiers, {}, {}).err,
          verified |-> TRUE]

----------------------------------------------------------------------------
(* cmd.loadEnvelopesFromDisk *)

RECURSIVE DiskLoop(_, _, _)
DiskLoop(paths, i, acc) ==
    IF i > Len(paths) THEN [envelopes |-> acc, err |-> Nil]
    ELSE IF paths[i].status = "open_err"
         THEN [envelopes |-> <<>>, err |-> <<"open: no such file">>]
    ELSE IF paths[i].status = "read_err" THEN DiskLoop(paths, i + 1, acc)
    ELSE IF paths[i].status = "bad_json" THEN DiskLoop(paths, i + 1, acc)
    ELSE DiskLoop(paths, i + 1, Append(acc, paths[i].env))

loadEnvelopesFromDisk(paths) == DiskLoop(paths, 1, <<>>)

(* cmd.loadEnvelopesFromRekor: client is how rekor.New ended, query how
   FindEntriesBySubject ended, found the entries it returned. *)

RECURSIVE RekorLoop(_, _, _)
RekorLoop(found, i, acc) ==
    IF i > Len(found) THEN [envelopes |-> acc, err |-> Nil]
    ELSE IF found[i].status # "ok"
         THEN [envelopes |-> <<>>,
               err |-> Wrap("failed to parse dsse envelope from rekor entry",
                            <<"unexpected entry">>)]
    ELSE RekorLoop(found, i + 1, Append(acc, found[i].env))

\* Faulty variant: a failed client or query yields no envelopes and no error.
loadEnvelopesFromRekorLenient(client, query, found) ==
    IF client # Nil \/ query # Nil
    THEN [envelopes |-> <<>>, err |-> Nil]
    ELSE RekorLoop(found, 1, <<>>)

loadEnvelopesFromRekor(client, query, found) ==
    IF client # Nil
    THEN [envelopes |-> <<>>, err |-> Wrap("failed to get initialize Rekor client", client)]
    ELSE IF query # Nil
    THEN [envelopes |-> <<>>, err |-> Wrap("failed to find any entries in rekor", query)]
    ELSE RekorLoop(found, 1, <<>>)

----------------------------------------------------------------------------
(* cmd.runVerify *)

Call(name, err) == [call |-> name, ok |-> (err = Nil)]

\* Go ranges over a map in an order of its choosing.
Orderings(S) == {o \in [1..Cardinality(S) -> S] : Range(o) = S}

\* Faulty variant: puts the new items in front.
PrependAll(dst, more) == more \o dst

\* append(envelopes, more...)
AppendAll(dst, more) == dst \o more

\* return err: runVerify ends with that error.
Return(err, made) ==
    /\ pc' = "done"
    /\ ret' = err
    /\ calls' = calls \o made

\* fall through to the next statement.
Goto(next, made) ==
    /\ pc' = next
    /\ ret' = ret
    /\ calls' = calls \o made

\* runVerify's locals before its first statement.
RunLocals ==
    /\ ret = Nil
    /\ calls = <<>>
    /\ verifier = ""
    /\ policyFile = [status |-> "unread", env |-> NoEnvelope]
    /\ policyEnvelope = NoEnvelope
    /\ pol = EmptyPolicy
    /\ files = <<>>
    /\ entries = <<>>
    /\ queryFailed = FALSE
    /\ envelopes = <<>>
    /\ pubkeys = <<>>
    /\ roots = <<>>
    /\ intermediates = <<>>
    /\ verifiedStatements = <<>>
    /\ evaluated = <<>>

\* The command is started with or without --rekor-server.
RunInit ==
    /\ pc = "openKey"
    /\ rekorServer \in {"", "https://rekor"}
    /\ RunLocals

\* No command is running.
RunIdle ==
    /\ pc = "idle"
    /\ rekorServer = ""
    /\ RunLocals

\* keyFile, err := os.Open(vo.KeyPath)
OpenKeyFile ==
    /\ pc = "openKey"
    /\ \E err \in {Nil, <<"no such file">>} :
         IF err # Nil
         THEN Return(Wrap("failed to open key file", err), <<Call("os.Open(key)", err)>>)
         ELSE Goto("loadKey", <<Call("os.Open(key)", err)>>)
    /\ UNCHANGED sinkVars
    /\ UNCHANGED <<rekorServer, verifier, policyFile, policyEnvelope, pol, files, entries,
                   queryFailed, envelopes, pubkeys, roots, intermediates,
                   verifiedStatements, evaluated>>

\* verifier, err := cryptoutil.NewVerifierFromReader(keyFile)
LoadKey ==
    /\ pc = "loadKey"
    /\ \E err \in {Nil, <<"not a public key">>} :
         IF err # Nil
         THEN /\ Return(Wrap("failed to load key", err), <<Call("NewVerifierFromReader", err)>>)
              /\ verifier' = verifier
         ELSE /\ Goto("openPolicy", <<Call("NewVerifierFromReader", err)>>)
              /\ verifier' = "kp"
    /\ UNCHANGED sinkVars
    /\ UNCHANGED <<rekorServer, policyFile, policyEnvelope, pol, files, entries,
                   queryFailed, envelopes, pubkeys, roots, intermediates,
                   verifiedStatements, evaluated>>

\* inFile, err := os.Open(vo.PolicyFilePath)
OpenPolicyFile ==
    /\ pc = "openPolicy"
    /\ \E err \in {Nil, <<"no such file">>} :
         IF err # Nil
         THEN Return(Wrap("failed to open file to sign", err), <<Call("os.Open(policy)", err)>>)
         ELSE Goto("verifyPolicy", <<Call("os.Open(policy)", err)>>)
    /\ UNCHANGED sinkVars
    /\ UNCHANGED <<rekorServer, verifier, policyFile, policyEnvelope, pol, files, entries,
                   queryFailed, envelopes, pubkeys, roots, intermediates,
                   verifiedStatements, evaluated>>

\* policyEnvelope, err := witness.VerifySignature(inFile, verifier)
VerifyPolicy ==
    /\ pc = "verifyPolicy"
    /\ \E f \in PolicyFiles :
         LET r == VerifySignature(f, {verifier})
             made == <<Call("Decode", IF f.status = "ok" THEN Nil ELSE r.err)>>
                     \o (IF r.verified THEN <<Call("Envelope.Verify", r.err)>> ELSE <<>>)
         IN  /\ policyFile' = f
             /\ policyEnvelope' = r.envelope
             /\ IF r.err # Nil
                THEN Return(Wrap("failed to verify policy", r.err), made)
                ELSE Goto("parsePolicy", made)
    /\ UNCHANGED sinkVars
    /\ UNCHANGED <<rekorServer, verifier, pol, files, entries, queryFailed, envelopes,
                   pubkeys, roots, intermediates, verifiedStatements, evaluated>>

\* Faulty variant: the policy parse error is not checked.
ParsePolicyUnchecked ==
    /\ pc = "parsePolicy"
    /\ LET r == UnmarshalPolicy(policyEnvelope.payload)
       IN  /\ pol' = r.pol
           /\ Goto("loadDisk", <<Call("Unmarshal(policy)", r.err)>>)
    /\ UNCHANGED sinkVars
    /\ UNCHANGED <<rekorServer, verifier, policyFile, policyEnvelope, files, entries,
                   queryFailed, envelopes, pubkeys, roots, intermediates,
                   verifiedStatements, evaluated>>

\* err = json.Unmarshal(policyEnvelope.Payload, &pol)
ParsePolicy ==
    /\ pc = "parsePolicy"
    /\ LET r == UnmarshalPolicy(policyEnvelope.payload)
       IN  /\ pol' = r.pol
           /\ IF r.err # Nil
              THEN Return(Wrap("failed to parse policy", r.err), <<Call("Unmarshal(policy)", r.err)>>)
              ELSE Goto("loadDisk", <<Call("Unmarshal(policy)", r.err)>>)
    /\ UNCHANGED sinkVars
    /\ UNCHANGED <<rekorServer, verifier, policyFile, policyEnvelope, files, entries,
                   queryFailed, envelopes, pubkeys, roots, intermediates,
                   verifiedStatements, evaluated>>

\* diskEnvs, err := loadEnvelopesFromDisk(vo.AttestationFilePaths)
\* envelopes = append(envelopes, diskEnvs...)
LoadDisk ==
    /\ pc = "loadDisk"
    /\ \E fs \in SeqsUpTo(AttestationFiles, MaxFiles) :
         LET r == loadEnvelopesFromDisk(fs)
         IN  /\ files' = fs
             /\ IF r.err # Nil
                THEN /\ Return(Wrap("failed to load attestation files", r.err),
                               <<Call("loadEnvelopesFromDisk", r.err)>>)
                     /\ envelopes' = envelopes
                ELSE /\ Goto(IF rekorServer # "" THEN "rekor" ELSE "publicKeys",
                             <<Call("loadEnvelopesFromDisk", r.err)>>)
                     /\ envelopes' = AppendAll(envelopes, r.envelopes)
    /\ UNCHANGED sinkVars
    /\ UNCHANGED <<rekorServer, verifier, policyFile, policyEnvelope, pol, entries,
                   queryFailed, pubkeys, roots, intermediates, verifiedStatements,
                   evaluated>>

\* The log's answers: rekor.New's error, FindEntriesBySubject's error and entries.
RekorAnswers ==
    { [client |-> <<"dial failed">>, query |-> Nil, found |-> <<>>],
      [client |-> Nil, query |-> <<"transport error">>, found |-> <<>>],
      [client |-> Nil, query |-> <<"no entries found">>, found |-> <<>>] }
    \cup { [client |-> Nil, query |-> Nil, found |-> es] :
             es \in SeqsUpTo(RekorEntries, MaxEntries) }

\* if vo.RekorServer != "" { ... envelopes = append(envelopes, rekorEnvs...) }
LoadRekor ==
    /\ pc = "rekor"
    /\ rekorServer # ""
    /\ \/ \* cryptoutil.CalculateDigestSetFromFile fails
          /\ Return(Wrap("failed to calculate artifact file's hash", <<"no such file">>),
                    <<Call("CalculateDigestSetFromFile", <<"no such file">>)>>)
          /\ UNCHANGED <<entries, queryFailed, envelopes>>
       \/ \E a \in RekorAnswers :
            LET r == loadEnvelopesFromRekor(a.client, a.query, a.found)
                made == <<Call("CalculateDigestSetFromFile", Nil),
                          Call("loadEnvelopesFromRekor", r.err)>>
            IN  /\ entries' = a.found
                /\ queryFailed' = (a.client # Nil \/ a.query # Nil)
                /\ IF r.err # Nil
                   THEN /\ Return(r.err, made)
                        /\ envelopes' = envelopes
                   ELSE /\ Goto("publicKeys", made)
                        /\ envelopes' = AppendAll(envelopes, r.envelopes)
    /\ UNCHANGED sinkVars
    /\ UNCHANGED <<rekorServer, verifier, policyFile, policyEnvelope, pol, files,
                   pubkeys, roots, intermediates, verifiedStatements, evaluated>>

\* pubkeysById, err := pol.PublicKeyVerifiers(); for ... { pubkeys = append(pubkeys, pubkey) }
LoadPublicKeys ==
    /\ pc = "publicKeys"
    /\ LET r == PublicKeyVerifiers(pol)
       IN  IF r.err # Nil
           THEN /\ Return(Wrap("failed to get public keys from policy", r.err),
                          <<Call("PublicKeyVerifiers", r.err)>>)
                /\ pubkeys' = pubkeys
           ELSE /\ Goto("trustBundles", <<Call("PublicKeyVerifiers", r.err)>>)
                /\ \E order \in Orderings(r.verifiers) : pubkeys' = order
    /\ UNCHANGED sinkVars
    /\ UNCHANGED <<rekorServer, verifier, policyFile, policyEnvelope, pol, files, entries,
                   queryFailed, envelopes, roots, intermediates, verifiedStatements,
                   evaluated>>

\* for _, trustBundle := range trustBundlesById {
\*     roots = append(roots, trustBundle.Root)
\*     intermediates = append(intermediates, intermediates...) }
RECURSIVE BundleLoop(_, _, _, _)
BundleLoop(order, i, rs, is) ==
    IF i > Len(order) THEN [roots |-> rs, intermediates |-> is]
    ELSE BundleLoop(order, i + 1, Append(rs, BundleRoot(order[i])), AppendAll(is, is))

LoadTrustBundles ==
    /\ pc = "trustBundles"
    /\ LET r == TrustBundles(pol)
       IN  IF r.err # Nil
           THEN /\ Return(Wrap("failed to load policy trust bundles", r.err),
                          <<Call("TrustBundles", r.err)>>)
                /\ UNCHANGED <<roots, intermediates>>
           ELSE /\ Goto("verifyEnvelopes", <<Call("TrustBundles", r.err)>>)
                /\ \E order \in Orderings(r.bundles) :
                     LET l == BundleLoop(order, 1, <<>>, <<>>)
                     IN  /\ roots' = l.roots
                         /\ intermediates' = l.intermediates
    /\ UNCHANGED sinkVars
    /\ UNCHANGED <<rekorServer, verifier, policyFile, policyEnvelope, pol, files, entries,
                   queryFailed, envelopes, pubkeys, verifiedStatements, evaluated>>

\* Faulty variant: the statement decode error is not checked.
VerifyOneKeepsUndecoded(env, vs, rs, is) ==
    LET v == EnvelopeVerify(env, vs, rs, is)
        s == UnmarshalStatement(env.payload)
    IN  IF v.err # Nil THEN <<>>
        ELSE << [Statement |-> s.statement, Verifiers |-> v.verifiers] >>

\* Faulty variant: the verification error is not checked.
VerifyOneKeepsUnverified(env, vs, rs, is) ==
    LET v == EnvelopeVerify(env, vs, rs, is)
        s == UnmarshalStatement(env.payload)
    IN  IF s.err # Nil THEN <<>>
        ELSE << [Statement |-> s.statement, Verifiers |-> v.verifiers] >>

\* The body of the loop over envelopes: what one envelope adds to verifiedStatements.
VerifyOne(env, vs, rs, is) ==
    LET v == EnvelopeVerify(env, vs, rs, is)
        s == UnmarshalStatement(env.payload)
    IN  IF v.err # Nil THEN <<>>
        ELSE IF s.err # Nil THEN <<>>
        ELSE << [Statement |-> s.statement, Verifiers |-> v.verifiers] >>

RECURSIVE VerifyLoop(_, _, _, _, _, _)
VerifyLoop(envs, i, acc, vs, rs, is) ==
    IF i > Len(envs) THEN acc
    ELSE VerifyLoop(envs, i + 1, AppendAll(acc, VerifyOne(envs[i], vs, rs, is)), vs, rs, is)

VerifyEnvelopes ==
    /\ pc = "verifyEnvelopes"
    /\ verifiedStatements' =
         VerifyLoop(envelopes, 1, <<>>, Range(pubkeys), Range(roots), Range(intermediates))
    /\ Goto("polVerify", <<>>)
    /\ UNCHANGED sinkVars
    /\ UNCHANGED <<rekorServer, verifier, policyFile, policyEnvelope, pol, files, entries,
                   queryFailed, envelopes, pubkeys, roots, intermediates, evaluated>>

\* return pol.Verify(verifiedStatements): the evaluator's verdict is its own.
PolVerify ==
    /\ pc = "polVerify"
    /\ \E err \in {Nil, <<"policy was denied">>} :
         Return(err, <<Call("pol.Verify", err)>>)
    /\ evaluated' = verifiedStatements
    /\ UNCHANGED sinkVars
    /\ UNCHANGED <<rekorServer, verifier, policyFile, policyEnvelope, pol, files, entries,
                   queryFailed, envelopes, pubkeys, roots, intermediates,
                   verifiedStatements>>

----------------------------------------------------------------------------
(* sink: the collector / archivist client *)

Attestations == {"att1", "att2"}

Algorithms == {"sha256", "sha1"}

Digests == {"d1", "d2"}

\* What the archivist's GetBySubjectDigest RPC can answer: a response and no
\* error, or no response and an error.
RpcAnswers ==
    { [resp |-> [isNil |-> TRUE, Object |-> <<>>], err |-> e] :
        e \in {<<"unavailable">>, <<"deadline exceeded">>} }
    \cup { [resp |-> [isNil |-> FALSE, Object |-> os], err |-> Nil] :
             os \in SeqsUpTo(Attestations, MaxObjects) }

\* The answers of a connection that Stop has closed.
ClosedAnswers == {a \in RpcAnswers : a.err # Nil}

RpcCall(method, arg, err) == [method |-> method, arg |-> arg, err |-> err]

\* No sink was made.
SinkIdle ==
    /\ sinkKind = "none"
    /\ sinkPc = "ready"
    /\ rpcCalls = <<>>
    /\ sinkRet = [objects |-> <<>>, err |-> Nil]

\* NewCollector / NewArchivist returned a sink.
SinkInit ==
    /\ sinkKind \in {"collector", "archivist"}
    /\ sinkPc = "ready"
    /\ rpcCalls = <<>>
    /\ sinkRet = [objects |-> <<>>, err |-> Nil]

\* _, err := s.collector.Store(ctx, &r); return err
Store ==
    /\ sinkKind = "collector"
    /\ sinkPc \in {"ready", "stopped"}
    /\ Len(rpcCalls) < MaxRpcs
    /\ \E attestation \in Attestations :
       \E err \in (IF sinkPc = "stopped" THEN {<<"unavailable">>}
                   ELSE {Nil, <<"unavailable">>}) :
         /\ rpcCalls' = Append(rpcCalls, RpcCall("Store", <<attestation>>, err))
         /\ sinkRet' = [objects |-> <<>>, err |-> err]
    /\ UNCHANGED <<sinkKind, sinkPc>>
    /\ UNCHANGED runVars

\* resp, err := s.archivist.GetBySubjectDigest(ctx, &r); return resp.Object, err
\* Reading a field through a nil resp is a nil-pointer dereference: the call panics.
GetBySubjectDigestRequest ==
    /\ sinkKind = "archivist"
    /\ sinkPc \in {"ready", "stopped"}
    /\ Len(rpcCalls) < MaxRpcs
    /\ \E algorithm \in Algorithms, digest \in Digests :
       \E a \in (IF sinkPc = "stopped" THEN ClosedAnswers ELSE RpcAnswers) :
         /\ rpcCalls' = Append(rpcCalls,
                               RpcCall("GetBySubjectDigest", <<algorithm, digest>>, a.err))
         /\ IF a.resp.isNil
            THEN /\ sinkPc' = "panicked"
                 /\ sinkRet' = sinkRet
            ELSE /\ sinkPc' = sinkPc
                 /\ sinkRet' = [objects |-> a.resp.Object, err |-> a.err]
    /\ UNCHANGED sinkKind
    /\ UNCHANGED runVars

\* return s.conn.Close()
Stop ==
    /\ sinkPc = "ready"
    /\ sinkPc' = "stopped"
    /\ sinkRet' = [objects |-> <<>>, err |-> Nil]
    /\ UNCHANGED <<sinkKind, rpcCalls>>
    /\ UNCHANGED runVars

Init == RunInit /\ SinkIdle

Next ==
    \/ OpenKeyFile
    \/ LoadKey
    \/ OpenPolicyFile
    \/ VerifyPolicy
    \/ ParsePolicy
    \/ LoadDisk
    \/ LoadRekor
    \/ LoadPublicKeys
    \/ LoadTrustBundles
    \/ VerifyEnvelopes
    \/ PolVerify

Spec == Init /\ [][Next]_vars

SinkNext ==
    \/ Store
    \/ GetBySubjectDigestRequest
    \/ Stop

SinkStart == RunIdle /\ SinkInit

SinkSpec == SinkStart /\ [][SinkNext]_vars

----------------------------------------------------------------------------
(* What the runs are checked against *)

Called(name) == \E i \in 1..Len(calls) : calls[i].call = name

CallOk(name) == \E i \in 1..Len(calls) : calls[i].call = name /\ calls[i].ok

Pos(name) == CHOOSE i \in 1..Len(calls) : calls[i].call = name

\* The policy file as it is, whatever the run made of it.
PolicyRead == policyFile.status # "unread"

PolicySigValid == policyFile.status = "ok" /\ verifier \in policyFile.env.sigs

PolicyParses == policyFile.status = "ok" /\ policyFile.env.payload \in DOMAIN PolicyDocs

PolicyLoads ==
    /\ PolicyParses
    /\ "kbad" \notin PolicyDocs[policyFile.env.payload].publickeys
    /\ "bbad" \notin PolicyDocs[policyFile.env.payload].trustbundles

\* The envelopes each source holds, in the source's order.
OkEnvelopes(items) ==
    LET ok == SelectSeq(items, LAMBDA x : x.status = "ok")
    IN  [i \in 1..Len(ok) |-> ok[i].env]

\* Both sources have been collected.
Collected ==
    /\ CallOk("loadEnvelopesFromDisk")
    /\ rekorServer # "" => CallOk("loadEnvelopesFromRekor")

VerifiesNow(e) ==
    EnvelopeVerify(e, Range(pubkeys), Range(roots), Range(intermediates)).err = Nil

DecodesAsStatement(e) == UnmarshalStatement(e.payload).err = Nil

\* One VerifiedStatement per envelope that verifies and decodes, in order.
ExpectedStatements(envs) ==
    LET kept == SelectSeq(envs, LAMBDA e : VerifiesNow(e) /\ DecodesAsStatement(e))
    IN  [i \in 1..Len(kept) |->
            [Statement |-> UnmarshalStatement(kept[i].payload).statement,
             Verifiers |-> EnvelopeVerify(kept[i], Range(pubkeys), Range(roots),
                                          Range(intermediates)).verifiers]]

\* C1: runVerify returns nil only after the policy signature verified, the
\* policy parsed, its keys and trust bundles loaded and pol.Verify succeeded,
\* in that order; when the signature check, the parse or the loading fails,
\* pol.Verify is never called and runVerify returns an error.
C1_SuccessOnlyAfterEveryCheck ==
    /\ (pc = "done" /\ ret = Nil) =>
          /\ PolicySigValid /\ PolicyParses /\ PolicyLoads
          /\ CallOk("Envelope.Verify") /\ CallOk("Unmarshal(policy)")
          /\ CallOk("PublicKeyVerifiers") /\ CallOk("TrustBundles") /\ CallOk("pol.Verify")
          /\ Pos("Envelope.Verify") < Pos("Unmarshal(policy)")
          /\ Pos("Unmarshal(policy)") < Pos("PublicKeyVerifiers")
          /\ Pos("PublicKeyVerifiers") < Pos("TrustBundles")
          /\ Pos("TrustBundles") < Pos("pol.Verify")
    /\ (PolicyRead /\ ~(PolicySigValid /\ PolicyParses /\ PolicyLoads)) =>
          /\ ~Called("pol.Verify")
          /\ pc = "done" => ret # Nil

C1_Witness == pc = "done" /\ ret = Nil /\ Len(evaluated) > 0

\* C2: a verification or statement-decode failure drops that envelope only:
\* once the trust anchors are loaded the evaluator is always reached, and it
\* is handed exactly one VerifiedStatement per envelope that verifies and
\* decodes, in the envelopes' order.
C2_StatementsAreTheVerifiedDecodedSubsequence ==
    /\ pc \in {"polVerify", "done"} /\ CallOk("TrustBundles") =>
          verifiedStatements = ExpectedStatements(envelopes)
    /\ pc = "done" /\ CallOk("TrustBundles") =>
          /\ Called("pol.Verify")
          /\ evaluated = ExpectedStatements(envelopes)

C2_Witness ==
    /\ pc = "done"
    /\ Len(evaluated) >= 2
    /\ evaluated[1] # evaluated[2]
    /\ \E i \in 1..Len(envelopes) : ~VerifiesNow(envelopes[i])
    /\ \E i \in 1..Len(envelopes) :
         VerifiesNow(envelopes[i]) /\ ~DecodesAsStatement(envelopes[i])

\* C3: every VerifiedStatement given to pol.Verify has a non-empty set of
\* matched verifiers, each of them a signer of an aggregated envelope with
\* that statement.
C3_NoUnauthenticatedStatement ==
    \A i \in 1..Len(evaluated) :
        /\ evaluated[i].Verifiers # {}
        /\ \E j \in 1..Len(envelopes) :
             /\ evaluated[i].Verifiers \subseteq envelopes[j].sigs
             /\ UnmarshalStatement(envelopes[j].payload).statement = evaluated[i].Statement

C3_Witness ==
    /\ Called("pol.Verify")
    /\ Len(evaluated) > 0
    /\ \E j \in 1..Len(envelopes) :
         ~VerifiesNow(envelopes[j]) /\ DecodesAsStatement(envelopes[j])

\* C4: the aggregated list is the disk envelopes in path order followed by
\* the log envelopes in entry order, and the VerifiedStatements follow it.
C4_DiskThenLog ==
    /\ Collected => envelopes = OkEnvelopes(files) \o OkEnvelopes(entries)
    /\ Called("pol.Verify") =>
          evaluated = ExpectedStatements(OkEnvelopes(files) \o OkEnvelopes(entries))

C4_Witness ==
    /\ Called("pol.Verify")
    /\ Len(OkEnvelopes(files)) >= 1
    /\ Len(OkEnvelopes(entries)) >= 1
    /\ OkEnvelopes(files)[1] # OkEnvelopes(entries)[1]
    /\ Len(evaluated) >= 2
    /\ evaluated[1] # evaluated[2]

\* C5: a parse failure on one item of either source drops that item only:
\* when every file could be read and the log answered, every parseable
\* envelope of both sources is collected and the run goes on to load the
\* policy's keys.
C5_ParseFailureDropsOnlyThatItem ==
    ( /\ Called("loadEnvelopesFromDisk")
      /\ \A i \in 1..Len(files) : files[i].status \in {"ok", "bad_json"}
      /\ rekorServer # "" => (Called("loadEnvelopesFromRekor") /\ ~queryFailed) )
    => /\ envelopes = OkEnvelopes(files) \o OkEnvelopes(entries)
       /\ pc = "done" => Called("PublicKeyVerifiers")

C7_AnchorsHoldEveryBundle ==
    CallOk("TrustBundles") =>
        \A b \in pol.trustbundles :
            /\ BundleRoot(b) \in Range(roots)
            /\ Range(BundleIntermediates(b)) \subseteq Range(intermediates)

\* C8: VerifySignature on bytes that do not decode returns a parse error
\* without calling Envelope.Verify; on bytes that decode it returns exactly
\* what Envelope.Verify returned; the two errors differ.
C8_DecodeErrorBeforeVerification ==
    PolicyRead =>
        LET verdict == EnvelopeVerify(policyFile.env, {verifier}, {}, {}).err
        IN  /\ policyFile.status # "ok" =>
                 /\ ~Called("Envelope.Verify")
                 /\ pc = "done"
                 /\ ret = <<"failed to verify policy", "failed to parse dsse envelope",
                            "invalid character">>
            /\ policyFile.status = "ok" =>
                 /\ Called("Envelope.Verify")
                 /\ CallOk("Envelope.Verify") <=> verdict = Nil
                 /\ verdict # Nil =>
                      /\ pc = "done"
                      /\ ret = Wrap("failed to verify policy", verdict)
                      /\ ret[2] # "failed to parse dsse envelope"
                 /\ verdict = Nil => policyEnvelope = policyFile.env

C8_Witness == pc = "done" /\ policyFile.status = "bad_json"

\* C9: an I/O error on an attestation file (open or read) makes runVerify
\* return an error.
C9_DiskIOErrorsPropagate ==
    (pc = "done" /\ \E i \in 1..Len(files) : files[i].status \in {"open_err", "read_err"})
    => ret # Nil

\* C10: when the lookup RPC fails, GetBySubjectDigestRequest returns that
\* error normally, after one attempt.
C10_FailedLookupReturnsItsError ==
    \A i \in 1..Len(rpcCalls) :
        (i = Len(rpcCalls) /\ rpcCalls[i].method = "GetBySubjectDigest"
            /\ rpcCalls[i].err # Nil)
        => /\ sinkPc # "panicked"
           /\ sinkRet.err = rpcCalls[i].err

====
